---- MODULE Spec2Model ----
(***************************************************************************)
(* FriendlyMinter: the mint-job lifecycle of the mock API                  *)
(* (MockAPIEnhanced), the queue worker that mints a collection in batches  *)
(* (MintWorker with the job utilities and the BullMQ mint queue), the      *)
(* Merkle tree planner (MerkleTreeManager.calculateTreeParams), and the    *)
(* RPC gateway (RPCManager: request pool, rate-limit delay, retries).      *)
(*                                                                         *)
(* The parts share no state.  Each has its own specification, in which     *)
(* the other parts stay in their initial state; Spec is their composition. *)
(***************************************************************************)
EXTENDS Integers, Sequences, FiniteSets, TLC

VARIABLES
  \* ---- MockAPIEnhanced ----
  jobId,        \* id of the entry of data.mintJobs that is followed
  job,          \* that entry (NoJob while it has not been created)
  intervals,    \* live setInterval timers of simulateMintingProgress for it
  lastOp,       \* the operation that produced the current entry
  \* ---- MintWorker / queue / database ----
  wpc,          \* position of processJob
  attemptsMade, \* BullMQ attempts of the queue job so far
  dbJob,        \* the prisma.mintJob row
  collection,   \* the prisma.collection row
  batchSize,    \* MintJobData.batchSize
  inputOk,      \* whether validateJobData accepts the job data
  error,        \* the error caught by processJob in the current attempt
  batchIdx,     \* loop variable i of processJob
  failedItems,  \* leaf indexes whose sendTransaction failed in the last batch
  sent,         \* record -> number of sendTransaction calls for it
  minted,       \* record -> number of sendTransaction calls for it that succeeded
  awaited,      \* leaf indexes of the batch whose call Promise.all still waits for
  stray,        \* record -> calls in flight whose Promise.all has rejected
  applied,      \* record -> number of times counted in collection.mintedCount
  qProgress,    \* the queue job's progress (job.updateProgress)
  upd,          \* progress that updateJobProgress has still to write to the row
  \* ---- MerkleTreeManager ----
  prevPlan,     \* the call of calculateTreeParams before the last one
  plan,         \* the last call of calculateTreeParams: input and result
  tree,         \* result of createTree on the last plan
  \* ---- RPCManager (one instance per component that constructs one) ----
  requestQueue,   \* manager -> this.requestQueue: the calls that wait, in order
  activeRequests, \* manager -> this.activeRequests
  rateLimitDelay, \* manager -> this.rateLimitDelay, in ms
  call,           \* the executeWithRetry invocation that is followed
  endpoint,       \* how the RPC endpoint answers: "any", "rateLimited", "healthy"
  \* ---- GET /api/jobs/[id]/status ----
  gpc,            \* position of the handler: "idle", "queue"
  snap,           \* the row the handler has read (const job)
  response,       \* the body of the last response
  \* ---- MetadataWorker.saveMetadataRecords and CNFTMinter.mintCNFT ----
  nftRows,        \* leafIndex of the nftMetadata rows, in the order of the CSV rows
  mintResults,    \* leafIndex of the MintCNFTResult of every mintCNFT that returned
  mintErrors,     \* number of mintCNFT calls that threw
  \* ---- POST /api/mint-jobs, request by request ----
  ppc,            \* request -> position of its handler, or the status it answered
  jobRows,        \* the requests whose createMintJob has made a mintJob row
  queueJobs       \* the requests whose job mintQueue.add has enqueued

mockVars == <<jobId, job, intervals, lastOp>>
workerVars == <<wpc, attemptsMade, dbJob, collection, batchSize, inputOk, error,
                batchIdx, failedItems, sent, minted, awaited, stray, applied, qProgress, upd>>
plannerVars == <<prevPlan, plan, tree>>
rpcVars == <<requestQueue, activeRequests, rateLimitDelay, call, endpoint>>
statusVars == <<gpc, snap, response>>
minterVars == <<nftRows, mintResults, mintErrors>>
postVars == <<ppc, jobRows, queueJobs>>
vars == <<jobId, job, intervals, lastOp,
          wpc, attemptsMade, dbJob, collection, batchSize, inputOk, error,
          batchIdx, failedItems, sent, minted, awaited, stray, applied, qProgress, upd,
          prevPlan, plan, tree,
          requestQueue, activeRequests, rateLimitDelay, call, endpoint,
          gpc, snap, response,
          nftRows, mintResults, mintErrors,
          ppc, jobRows, queueJobs>>

\* ------------------------------------------------------------------------
\* Bounds of the model
\* ------------------------------------------------------------------------
MaxIntervals == 2   \* live progress timers per job
MaxNewTotal == 12   \* totalNfts of a job made by createMintJob
MaxRecords == 3     \* nftMetadata rows of the collection
MaxStray == 1       \* calls per record in flight after their Promise.all rejected
MaxExp == 21        \* planner inputs range over 2^0 .. 2^MaxExp (+1)

\* ------------------------------------------------------------------------
\* MintJob (types/nft.ts) and the seeded jobs (mock-enhanced.ts)
\* ------------------------------------------------------------------------
Statuses == {"PENDING", "PROCESSING", "COMPLETED", "FAILED", "CANCELLED"}
Terminal == {"COMPLETED", "FAILED", "CANCELLED"}

\* Costs are kept exact: estimatedCost in 1/100 SOL, and actualCost of a job
\* in 1/(100 * totalNfts) SOL, the unit in which
\* (newMintedCount / totalNfts) * estimatedCost is newMintedCount * estimatedCost.
\* (IEEE division and multiplication are monotone, so the order of two costs
\* is the order of their exact values, up to equality.)
NoJob == [status |-> "NONE", totalNfts |-> 0, mintedCount |-> 0, failedCount |-> 0,
          errorMessage |-> FALSE, startedAt |-> FALSE, completedAt |-> FALSE,
          estimatedCost |-> 0, actualCost |-> 0, progress |-> 0]

mockMintJobsEnhanced ==
  [id \in {"job-1", "job-2", "job-3", "job-4"} |->
     CASE id = "job-1" ->
            [status |-> "COMPLETED", totalNfts |-> 100, mintedCount |-> 100,
             failedCount |-> 0, errorMessage |-> FALSE,
             startedAt |-> TRUE, completedAt |-> TRUE,
             estimatedCost |-> 250, actualCost |-> 247 * 100,
             progress |-> 100]
       [] id = "job-2" ->
            [status |-> "PROCESSING", totalNfts |-> 200, mintedCount |-> 130,
             failedCount |-> 0, errorMessage |-> FALSE,
             startedAt |-> TRUE, completedAt |-> FALSE,
             estimatedCost |-> 520, actualCost |-> 338 * 200,
             progress |-> 65]
       [] id = "job-3" ->
            [status |-> "PENDING", totalNfts |-> 50, mintedCount |-> 0,
             failedCount |-> 0, errorMessage |-> FALSE,
             startedAt |-> FALSE, completedAt |-> FALSE,
             estimatedCost |-> 130, actualCost |-> 0, progress |-> 0]
       [] id = "job-4" ->
            [status |-> "FAILED", totalNfts |-> 150, mintedCount |-> 37,
             failedCount |-> 113, errorMessage |-> TRUE,
             startedAt |-> TRUE, completedAt |-> FALSE,
             estimatedCost |-> 390, actualCost |-> 96 * 150,
             progress |-> 25]]

SeededIds == DOMAIN mockMintJobsEnhanced
NewId == "new"

\* Math.floor(Math.random() * 10) + 1
Increments == 1..10

Min(a, b) == IF a <= b THEN a ELSE b
Max(a, b) == IF a >= b THEN a ELSE b

\* ------------------------------------------------------------------------
\* MockAPIEnhanced.  Every operation addresses one entry of data.mintJobs by
\* id and reads and writes no other entry, so the model follows one entry:
\* Init chooses a seeded job, or the job that createMintJob will push.
\* The part of a handler after its last await runs without interleaving.
\* ------------------------------------------------------------------------
MockInit ==
  /\ jobId \in SeededIds \cup {NewId}
  /\ job = IF jobId \in SeededIds THEN mockMintJobsEnhanced[jobId] ELSE NoJob
  /\ intervals = 0
  /\ lastOp = "none"

\* createMintJob: the caller's jobData (status, totalNfts, ...) with the
\* counters set to zero.  Callers hand in jobs that have not run yet.
NewJobStatuses == {"PENDING"}
NewJobCosts == {0, 130}

createMintJob(st, total, cost) ==
  /\ jobId = NewId
  /\ job = NoJob
  /\ job' = [status |-> st, totalNfts |-> total, mintedCount |-> 0,
             failedCount |-> 0, errorMessage |-> FALSE,
             startedAt |-> FALSE, completedAt |-> FALSE,
             estimatedCost |-> cost, actualCost |-> 0, progress |-> 0]
  /\ lastOp' = "create"
  /\ UNCHANGED <<jobId, intervals, workerVars, plannerVars, rpcVars, statusVars, minterVars, postVars>>

\* simulateMintingProgress up to setInterval: a new timer iff the job is
\* PROCESSING
NewIntervals(j) == IF j.status = "PROCESSING" THEN intervals + 1 ELSE intervals

startMintJob ==
  /\ job # NoJob
  /\ intervals < MaxIntervals
  /\ job' = [job EXCEPT !.status = "PROCESSING", !.startedAt = TRUE]
  /\ intervals' = NewIntervals(job')
  /\ lastOp' = "start"
  /\ UNCHANGED <<jobId, workerVars, plannerVars, rpcVars, statusVars, minterVars, postVars>>

pauseMintJob ==
  /\ job # NoJob
  /\ job' = [job EXCEPT !.status = "PENDING"]
  /\ lastOp' = "pause"
  /\ UNCHANGED <<jobId, intervals, workerVars, plannerVars, rpcVars, statusVars, minterVars, postVars>>

resumeMintJob ==
  /\ job # NoJob
  /\ intervals < MaxIntervals
  /\ job' = [job EXCEPT !.status = "PROCESSING"]
  /\ intervals' = NewIntervals(job')
  /\ lastOp' = "resume"
  /\ UNCHANGED <<jobId, workerVars, plannerVars, rpcVars, statusVars, minterVars, postVars>>

\* the setInterval callback of simulateMintingProgress, one firing of one timer
NewMintedCount(j, inc) == Min(j.mintedCount + inc, j.totalNfts)

\* mutant of the cost of a tick: the cost of the increment alone
ActualCostOfIncrement(j, n) == (n - j.mintedCount) * j.estimatedCost

\* actualCost: (newMintedCount / currentJob.totalNfts) * currentJob.estimatedCost
ActualCost(j, n) == n * j.estimatedCost

\* the (newMintedCount, totalNfts) at which the double-precision
\* (newMintedCount / totalNfts) * 100 lies below the exact quotient's floor
FloatFloorShort ==
  {<<29, 50>>, <<29, 100>>, <<57, 100>>, <<58, 100>>, <<87, 150>>,
   <<58, 200>>, <<114, 200>>, <<116, 200>>}

\* Math.floor((newMintedCount / currentJob.totalNfts) * 100)
NewProgress(j, n) ==
  ((n * 100) \div j.totalNfts) - (IF <<n, j.totalNfts>> \in FloatFloorShort THEN 1 ELSE 0)

\* mutant of the test of the timer callback: the callback runs whatever the status
TickRunsAlways(j) == j.status # "NONE"

\* the timer callback goes on iff currentJob.status === 'PROCESSING'
TickRuns(j) == j.status = "PROCESSING"

ProgressTick(inc) ==
  /\ intervals > 0
  /\ IF ~TickRuns(job)
       THEN /\ intervals' = intervals - 1          \* clearInterval, return
            /\ UNCHANGED <<job, lastOp>>
       ELSE LET n == NewMintedCount(job, inc) IN
            /\ job' = IF n >= job.totalNfts
                        THEN [job EXCEPT !.mintedCount = n,
                                         !.actualCost = ActualCost(job, n),
                                         !.status = "COMPLETED",
                                         !.progress = 100,
                                         !.completedAt = TRUE]
                        ELSE [job EXCEPT !.mintedCount = n,
                                         !.actualCost = ActualCost(job, n),
                                         !.progress = NewProgress(job, n)]
            /\ intervals' = IF n >= job.totalNfts THEN intervals - 1 ELSE intervals
            /\ lastOp' = "tick"
  /\ UNCHANGED <<jobId, workerVars, plannerVars, rpcVars, statusVars, minterVars, postVars>>

MockNext ==
  \/ \E st \in NewJobStatuses, total \in 1..MaxNewTotal, cost \in NewJobCosts :
       createMintJob(st, total, cost)
  \/ startMintJob
  \/ pauseMintJob
  \/ resumeMintJob
  \/ \E inc \in Increments : ProgressTick(inc)

\* cancel(jobId), the handler behind the Cancel button of MintingProgress
\* (shown while the status is PROCESSING or PENDING).  The handler is passed in
\* as onCancel and is not part of the mock API; it is modelled from section
\* 4.4 of the specification: the records without an outcome are counted under
\* failedCount, the status becomes CANCELLED at once, timers are left to drain.
cancelMintJob ==
  /\ job.status \in {"PROCESSING", "PENDING"}
  /\ job' = [job EXCEPT
               !.status = "CANCELLED",
               !.failedCount = @ + Max(job.totalNfts - job.mintedCount - job.failedCount, 0),
               !.completedAt = TRUE]
  /\ lastOp' = "cancel"
  /\ UNCHANGED <<jobId, intervals, workerVars, plannerVars, rpcVars, statusVars, minterVars, postVars>>

MockCancelNext == MockNext \/ cancelMintJob

\* ------------------------------------------------------------------------
\* The mint queue, MintWorker.processJob and the job utilities
\* (Checkpoint-05).  One queue job for one collection; records are the
\* nftMetadata rows in leafIndex order, record k (1-based) has leafIndex k - 1.
\* processJob is cut at its awaits: one action per awaited call.
\* updateProgress awaits job.updateProgress (the queue's progress) and then
\* updateJobProgress (the database row): the second write is the action
\* UpdateJobProgress, enabled while upd holds the progress to be written.
\* ------------------------------------------------------------------------
Attempts == 5       \* mintQueue defaultJobOptions.attempts

NoProgress == [percentage |-> 0, currentStep |-> "none"]
NoRow == [status |-> "NONE", progress |-> 0, errorMessage |-> "none",
          completedAt |-> FALSE, totalNfts |-> 0]

WorkerInit ==
  /\ wpc = "unqueued"
  /\ attemptsMade = 0
  /\ dbJob = NoRow
  /\ collection = [status |-> "INITIALIZED", mintedCount |-> 0]
  /\ batchSize = 1
  /\ inputOk = TRUE
  /\ error = "none"
  /\ batchIdx = 0
  /\ failedItems = {}
  /\ sent = <<>>
  /\ minted = <<>>
  /\ awaited = {}
  /\ stray = <<>>
  /\ applied = <<>>
  /\ qProgress = NoProgress
  /\ upd = NoProgress

\* the nftMetadata rows of the collection, ordered by leafIndex
Records == [k \in 1..dbJob.totalNfts |-> k - 1]

\* mutant of the slice: the end index taken as inclusive
SliceInclusive(items, i, j) == SubSeq(items, i + 1, Min(j + 1, Len(items)))

\* items.slice(i, j) for 0 <= i
Slice(items, i, j) == SubSeq(items, i + 1, Min(j, Len(items)))

RECURSIVE BatchLoop(_, _, _, _)
BatchLoop(items, size, i, batches) ==
  IF i < Len(items)
    THEN BatchLoop(items, size, i + size, Append(batches, Slice(items, i, i + size)))
    ELSE batches

createBatches(items, size) == BatchLoop(items, size, 0, <<>>)

Batches == createBatches(Records, batchSize)

\* leaf indexes of the batch the loop is at
BatchLeaves == {Batches[batchIdx + 1][x] : x \in 1..Len(Batches[batchIdx + 1])}

\* updateJobProgress: the status the row gets from a progress record
StatusOfStep(step) ==
  IF step = "completed" THEN "COMPLETED"
  ELSE IF step = "failed" THEN "FAILED" ELSE "PROCESSING"

\* MintWorker.updateProgress, first await: job.updateProgress(progress)
updateProgress(pct, step) ==
  /\ qProgress' = [percentage |-> pct, currentStep |-> step]
  /\ upd' = [percentage |-> pct, currentStep |-> step]

\* MintWorker.updateProgress, second await: updateJobProgress(jobId, progress)
UpdateJobProgress ==
  /\ upd # NoProgress
  /\ dbJob' = [dbJob EXCEPT !.progress = upd.percentage,
                            !.status = StatusOfStep(upd.currentStep)]
  /\ upd' = NoProgress
  /\ UNCHANGED <<wpc, attemptsMade, collection, batchSize, inputOk, error,
                 batchIdx, failedItems, sent, minted, awaited, stray, applied, qProgress,
                 mockVars, plannerVars, rpcVars, statusVars, minterVars, postVars>>

\* POST /api/mint-jobs: createMintJob, mintQueue.add, collection -> MINTING
Enqueue(n, bs, ok) ==
  /\ wpc = "unqueued"
  /\ dbJob' = [NoRow EXCEPT !.status = "PENDING", !.totalNfts = n]
  /\ collection' = [collection EXCEPT !.status = "MINTING"]
  /\ batchSize' = bs
  /\ inputOk' = ok
  /\ sent' = [k \in 1..n |-> 0]
  /\ minted' = [k \in 1..n |-> 0]
  /\ stray' = [k \in 1..n |-> 0]
  /\ applied' = [k \in 1..n |-> 0]
  /\ wpc' = "waiting"
  /\ UNCHANGED <<attemptsMade, error, batchIdx, failedItems, awaited, qProgress, upd,
                 mockVars, plannerVars, rpcVars, statusVars, minterVars, postVars>>

\* the queue hands the job to the worker: the first attempt, or a retry
Dequeue ==
  /\ wpc = "waiting"
  /\ attemptsMade < Attempts
  /\ attemptsMade' = attemptsMade + 1
  /\ error' = "none"
  /\ wpc' = "start"
  /\ UNCHANGED <<dbJob, collection, batchSize, inputOk, batchIdx, failedItems,
                 sent, minted, awaited, stray, applied, qProgress, upd, mockVars, plannerVars, rpcVars, statusVars, minterVars, postVars>>

ProcessJobStart ==
  /\ wpc = "start" /\ upd = NoProgress
  /\ updateProgress(0, "initialization")
  /\ wpc' = "validate"
  /\ UNCHANGED <<attemptsMade, dbJob, collection, batchSize, inputOk, error,
                 batchIdx, failedItems, sent, minted, awaited, stray, applied, mockVars, plannerVars, rpcVars, statusVars, minterVars, postVars>>

ValidateJobData ==
  /\ wpc = "validate" /\ upd = NoProgress
  /\ IF inputOk
       THEN /\ updateProgress(10, "metadata_fetch")
            /\ wpc' = "fetch"
            /\ UNCHANGED error
       ELSE /\ error' = "Missing required job data"
            /\ wpc' = "catch"
            /\ UNCHANGED <<qProgress, upd>>
  /\ UNCHANGED <<attemptsMade, dbJob, collection, batchSize, inputOk,
                 batchIdx, failedItems, sent, minted, awaited, stray, applied, mockVars, plannerVars, rpcVars, statusVars, minterVars, postVars>>

FetchMetadata ==
  /\ wpc = "fetch" /\ upd = NoProgress
  /\ updateProgress(20, "transaction_prep")
  /\ batchIdx' = 0
  /\ wpc' = "loop"
  /\ UNCHANGED <<attemptsMade, dbJob, collection, batchSize, inputOk, error,
                 failedItems, sent, minted, awaited, stray, applied, mockVars, plannerVars, rpcVars, statusVars, minterVars, postVars>>

\* head of the for loop; the percentage keeps the whole percents
LoopHead ==
  /\ wpc = "loop" /\ upd = NoProgress
  /\ IF batchIdx < Len(Batches)
       THEN /\ updateProgress(20 + ((60 * batchIdx) \div Len(Batches)), "minting")
            /\ wpc' = "batch"
       ELSE /\ updateProgress(90, "finalization")
            /\ wpc' = "markCollection"
  /\ UNCHANGED <<attemptsMade, dbJob, collection, batchSize, inputOk, error,
                 batchIdx, failedItems, sent, minted, awaited, stray, applied, mockVars, plannerVars, rpcVars, statusVars, minterVars, postVars>>

\* processBatch up to await Promise.all: batch.map sends every item of the batch
processBatch ==
  /\ wpc = "batch" /\ upd = NoProgress
  /\ sent' = [k \in DOMAIN sent |-> IF (k - 1) \in BatchLeaves THEN sent[k] + 1 ELSE sent[k]]
  /\ awaited' = BatchLeaves
  /\ failedItems' = {}
  /\ wpc' = "await"
  /\ UNCHANGED <<attemptsMade, dbJob, collection, batchSize, inputOk, error,
                 batchIdx, minted, stray, applied, qProgress, upd,
                 mockVars, plannerVars, rpcVars, statusVars, minterVars, postVars>>

\* mutant of Promise.all: processBatch goes on when the first call resolves
FirstResolved(rest) == TRUE

\* Promise.all resolves when no call of the batch is left to wait for
AllResolved(rest) == rest = {}

\* the call of one item of the batch settles.  Resolved: Promise.all resolves
\* if it was the last one.  Rejected: Promise.all rejects at once, processJob
\* goes to its catch block and the other calls of the batch stay in flight.
ItemOutcome(item, ok) ==
  /\ wpc = "await"
  /\ item \in awaited
  /\ IF ok
       THEN /\ minted' = [minted EXCEPT ![item + 1] = @ + 1]
            /\ awaited' = awaited \ {item}
            /\ wpc' = IF AllResolved(awaited') THEN "count" ELSE "await"
            /\ UNCHANGED <<failedItems, error, stray>>
       ELSE /\ \A k \in awaited \ {item} : stray[k + 1] < MaxStray
            /\ failedItems' = {item}
            /\ error' = "mint failed"
            /\ stray' = [k \in DOMAIN stray |->
                           IF (k - 1) \in awaited \ {item} THEN stray[k] + 1 ELSE stray[k]]
            /\ awaited' = {}
            /\ wpc' = "catch"
            /\ UNCHANGED minted
  /\ UNCHANGED <<attemptsMade, dbJob, collection, batchSize, inputOk,
                 batchIdx, sent, applied, qProgress, upd,
                 mockVars, plannerVars, rpcVars, statusVars, minterVars, postVars>>

\* a call that nothing waits for any more settles
StrayOutcome(item, ok) ==
  /\ item + 1 \in DOMAIN stray
  /\ stray[item + 1] > 0
  /\ stray' = [stray EXCEPT ![item + 1] = @ - 1]
  /\ minted' = IF ok THEN [minted EXCEPT ![item + 1] = @ + 1] ELSE minted
  /\ UNCHANGED <<wpc, attemptsMade, dbJob, collection, batchSize, inputOk, error,
                 batchIdx, failedItems, sent, awaited, applied, qProgress, upd,
                 mockVars, plannerVars, rpcVars, statusVars, minterVars, postVars>>

\* updateMintedCount(collectionId, batch.length), then i++
updateMintedCount ==
  /\ wpc = "count"
  /\ collection' = [collection EXCEPT
                      !.mintedCount = @ + Len(Batches[batchIdx + 1])]
  /\ applied' = [k \in DOMAIN applied |->
                   IF (k - 1) \in BatchLeaves THEN applied[k] + 1 ELSE applied[k]]
  /\ batchIdx' = batchIdx + 1
  /\ wpc' = "loop"
  /\ UNCHANGED <<attemptsMade, dbJob, batchSize, inputOk, error, failedItems,
                 sent, minted, awaited, stray, qProgress, upd, mockVars, plannerVars, rpcVars, statusVars, minterVars, postVars>>

markCollectionCompleted ==
  /\ wpc = "markCollection" /\ upd = NoProgress
  /\ collection' = [collection EXCEPT !.status = "COMPLETED"]
  /\ wpc' = "progress100"
  /\ UNCHANGED <<attemptsMade, dbJob, batchSize, inputOk, error, batchIdx,
                 failedItems, sent, minted, awaited, stray, applied, qProgress, upd, mockVars, plannerVars, rpcVars, statusVars, minterVars, postVars>>

ProgressCompleted ==
  /\ wpc = "progress100"
  /\ updateProgress(100, "completed")
  /\ wpc' = "markCompleted"
  /\ UNCHANGED <<attemptsMade, dbJob, collection, batchSize, inputOk, error,
                 batchIdx, failedItems, sent, minted, awaited, stray, applied, mockVars, plannerVars, rpcVars, statusVars, minterVars, postVars>>

markJobCompleted ==
  /\ wpc = "markCompleted" /\ upd = NoProgress
  /\ dbJob' = [dbJob EXCEPT !.status = "COMPLETED", !.progress = 100,
                            !.completedAt = TRUE]
  /\ wpc' = "done"
  /\ UNCHANGED <<attemptsMade, collection, batchSize, inputOk, error, batchIdx,
                 failedItems, sent, minted, awaited, stray, applied, qProgress, upd, mockVars, plannerVars, rpcVars, statusVars, minterVars, postVars>>

\* catch block of processJob
CatchProgress ==
  /\ wpc = "catch"
  /\ updateProgress(0, "failed")
  /\ wpc' = "markFailed"
  /\ UNCHANGED <<attemptsMade, dbJob, collection, batchSize, inputOk, error,
                 batchIdx, failedItems, sent, minted, awaited, stray, applied, mockVars, plannerVars, rpcVars, statusVars, minterVars, postVars>>

\* markJobFailed, then `throw error`: the queue retries while attempts remain
markJobFailed ==
  /\ wpc = "markFailed" /\ upd = NoProgress
  /\ dbJob' = [dbJob EXCEPT !.status = "FAILED", !.errorMessage = error]
  /\ wpc' = IF attemptsMade < Attempts THEN "waiting" ELSE "done"
  /\ UNCHANGED <<attemptsMade, collection, batchSize, inputOk, error, batchIdx,
                 failedItems, sent, minted, awaited, stray, applied, qProgress, upd, mockVars, plannerVars, rpcVars, statusVars, minterVars, postVars>>

\* the steps of the queue and the worker for a job that is enqueued
WorkerSteps ==
  \/ Dequeue
  \/ ProcessJobStart
  \/ UpdateJobProgress
  \/ ValidateJobData
  \/ FetchMetadata
  \/ LoopHead
  \/ processBatch
  \/ \E item \in 0..(MaxRecords - 1), ok \in BOOLEAN : ItemOutcome(item, ok)
  \/ \E item \in 0..(MaxRecords - 1), ok \in BOOLEAN : StrayOutcome(item, ok)
  \/ updateMintedCount
  \/ markCollectionCompleted
  \/ ProgressCompleted
  \/ markJobCompleted
  \/ CatchProgress
  \/ markJobFailed

WorkerNext ==
  \/ \E n \in 1..MaxRecords, bs \in 1..MaxRecords, ok \in BOOLEAN : Enqueue(n, bs, ok)
  \/ WorkerSteps

\* ------------------------------------------------------------------------
\* GET /api/jobs/[id]/status: the row is read, then the queue job.  The
\* model follows one request, and of the response body its status and
\* progress.
\* ------------------------------------------------------------------------
NoResponse == [code |-> 0, status |-> "NONE", progress |-> NoProgress]

StatusInit ==
  /\ gpc = "idle"
  /\ snap = NoRow
  /\ response = NoResponse

\* prisma.mintJob.findFirst; 404 when there is no row
GetStatusReadRow ==
  /\ gpc = "idle"
  /\ response = NoResponse
  /\ IF dbJob = NoRow
       THEN /\ response' = [NoResponse EXCEPT !.code = 404]
            /\ UNCHANGED <<gpc, snap>>
       ELSE /\ snap' = dbJob
            /\ gpc' = "queue"
            /\ UNCHANGED response
  /\ UNCHANGED <<mockVars, workerVars, plannerVars, rpcVars, minterVars, postVars>>

\* queueJob?.progress || { percentage: job.progress }: the progress of a
\* queue job is falsy until the worker's first job.updateProgress
ResponseProgress(row, queueProgress) ==
  IF queueProgress # NoProgress
    THEN queueProgress
    ELSE [percentage |-> row.progress, currentStep |-> "none"]

\* mintQueue.getJob, then the response
GetStatusRespond ==
  /\ gpc = "queue"
  /\ response' = [code |-> 200, status |-> snap.status,
                  progress |-> ResponseProgress(snap, qProgress)]
  /\ gpc' = "idle"
  /\ snap' = NoRow
  /\ UNCHANGED <<mockVars, workerVars, plannerVars, rpcVars, minterVars, postVars>>

StatusNext == GetStatusReadRow \/ GetStatusRespond

\* ------------------------------------------------------------------------
\* leafIndex: MetadataWorker.saveMetadataRecords gives it to the rows of a
\* collection, CNFTMinter.mintCNFT reports it for a mint into one tree
\* ------------------------------------------------------------------------
MaxRows == 5     \* rows of data.csvData
MaxMints == 5    \* calls of mintCNFT for the tree

MinterInit ==
  /\ nftRows = <<>>
  /\ mintResults = <<>>
  /\ mintErrors = 0

\* data.csvData.map((row, index) => ({ ..., leafIndex: index, ... }))
saveMetadataRecords(n) ==
  /\ nftRows = <<>>
  /\ nftRows' = [i \in 1..n |-> i - 1]
  /\ UNCHANGED <<mintResults, mintErrors, mockVars, workerVars, plannerVars,
                 rpcVars, statusVars, postVars>>

\* getNextLeafIndex(merkleTree), for a tree account that exists: the tree is
\* not parsed, the result is the constant 0 ("Placeholder")
getNextLeafIndex == 0

\* mintCNFT(payer, params): getNextLeafIndex throws when the tree account is
\* not found; later stands for simulation, sending and confirmation
mintCNFT(treeFound, later) ==
  /\ Len(mintResults) + mintErrors < MaxMints
  /\ IF treeFound /\ later
       THEN /\ mintResults' = Append(mintResults, getNextLeafIndex)
            /\ UNCHANGED mintErrors
       ELSE /\ mintErrors' = mintErrors + 1
            /\ UNCHANGED mintResults
  /\ UNCHANGED <<nftRows, mockVars, workerVars, plannerVars, rpcVars, statusVars, postVars>>

MinterNext ==
  \/ \E n \in 1..MaxRows : saveMetadataRecords(n)
  \/ \E treeFound \in BOOLEAN, later \in BOOLEAN : mintCNFT(treeFound, later)

\* ------------------------------------------------------------------------
\* POST /api/mint-jobs, cut at its awaits, for requests that name the same
\* collection of the same user.  The collection has metadata rows (one
\* without them is answered 400 before anything is written).  The
\* collection row is the one the worker updates.
\* ------------------------------------------------------------------------
MaxRequests == 3
Requests == 1..MaxRequests

PostInit ==
  /\ ppc = [r \in Requests |-> "idle"]
  /\ jobRows = {}
  /\ queueJobs = {}

PostUnchanged ==
  UNCHANGED <<wpc, attemptsMade, dbJob, batchSize, inputOk, error, batchIdx,
              failedItems, sent, minted, awaited, stray, applied, qProgress, upd,
              mockVars, plannerVars, rpcVars, statusVars, minterVars>>

\* prisma.collection.findFirst({ where: { ..., status: 'INITIALIZED' } })
PostFindCollection(r) ==
  /\ ppc[r] = "idle"
  /\ ppc' = [ppc EXCEPT ![r] = IF collection.status = "INITIALIZED" THEN "found" ELSE "404"]
  /\ UNCHANGED <<collection, jobRows, queueJobs>>
  /\ PostUnchanged

\* const jobId = await createMintJob(...)
PostCreateMintJob(r) ==
  /\ ppc[r] = "found"
  /\ jobRows' = jobRows \cup {r}
  /\ ppc' = [ppc EXCEPT ![r] = "created"]
  /\ UNCHANGED <<collection, queueJobs>>
  /\ PostUnchanged

\* await mintQueue.add('mint-collection', jobData, { jobId, delay: 1000 })
PostQueueAdd(r) ==
  /\ ppc[r] = "created"
  /\ queueJobs' = queueJobs \cup {r}
  /\ ppc' = [ppc EXCEPT ![r] = "queued"]
  /\ UNCHANGED <<collection, jobRows>>
  /\ PostUnchanged

\* prisma.collection.update({ data: { status: 'MINTING' } }), then 202
PostUpdateCollection(r) ==
  /\ ppc[r] = "queued"
  /\ collection' = [collection EXCEPT !.status = "MINTING"]
  /\ ppc' = [ppc EXCEPT ![r] = "202"]
  /\ UNCHANGED <<jobRows, queueJobs>>
  /\ PostUnchanged

\* an awaited call throws: the catch block answers 500
PostThrows(r) ==
  /\ ppc[r] \in {"idle", "found", "created", "queued"}
  /\ ppc' = [ppc EXCEPT ![r] = "500"]
  /\ UNCHANGED <<collection, jobRows, queueJobs>>
  /\ PostUnchanged

PostNext ==
  \/ \E r \in Requests : PostFindCollection(r)
  \/ \E r \in Requests : PostCreateMintJob(r)
  \/ \E r \in Requests : PostQueueAdd(r)
  \/ \E r \in Requests : PostUpdateCollection(r)
  \/ \E r \in Requests : PostThrows(r)

\* ------------------------------------------------------------------------
\* MerkleTreeManager: calculateTreeParams, isValidDepthSizePair, createTree
\* ------------------------------------------------------------------------
\* MERKLE_TREE_CONFIG
depths(config) ==
  CASE config = "small" -> 14 [] config = "medium" -> 17 [] config = "large" -> 20

bufferSizes(config) ==
  CASE config = "small" -> 64 [] config = "medium" -> 256 [] config = "large" -> 1024

canopyDepths(config) ==
  CASE config = "small" -> 10 [] config = "medium" -> 13 [] config = "large" -> 16

Configs == {"small", "medium", "large"}

\* mutants of the tier choice: the first threshold strict, and the tier
\* names of the first two branches swapped
ConfigForStrict(nftCount) ==
  IF nftCount < 16384 THEN "small"
  ELSE IF nftCount <= 131072 THEN "medium" ELSE "large"

ConfigForSwapped(nftCount) ==
  IF nftCount <= 16384 THEN "medium"
  ELSE IF nftCount <= 131072 THEN "small" ELSE "large"

\* the tier calculateTreeParams picks
ConfigFor(nftCount) ==
  IF nftCount <= 16384 THEN "small"
  ELSE IF nftCount <= 131072 THEN "medium" ELSE "large"

calculateTreeParams(nftCount) ==
  [maxDepth |-> depths(ConfigFor(nftCount)),
   maxBufferSize |-> bufferSizes(ConfigFor(nftCount)),
   canopyDepth |-> canopyDepths(ConfigFor(nftCount))]

validPairs ==
  {<<14, 64>>, <<14, 256>>, <<14, 1024>>, <<14, 2048>>,
   <<15, 64>>, <<16, 64>>, <<17, 64>>, <<18, 64>>, <<19, 64>>,
   <<20, 64>>, <<20, 256>>, <<20, 1024>>, <<20, 2048>>,
   <<24, 64>>, <<24, 256>>, <<24, 512>>, <<24, 1024>>, <<24, 2048>>,
   <<26, 512>>, <<26, 1024>>, <<26, 2048>>,
   <<30, 512>>, <<30, 1024>>, <<30, 2048>>}

isValidDepthSizePair(depth, bufferSize) ==
  \E pair \in validPairs : pair[1] = depth /\ pair[2] = bufferSize

\* error: what the call threw ("none": it returned params)
NoPlan == [nftCount |-> 0, error |-> "none",
           params |-> [maxDepth |-> 0, maxBufferSize |-> 0, canopyDepth |-> 0]]

\* target item counts handed to the planner: the powers of two up to
\* 2^MaxExp, their successors, and the count of the spec's example
NftCounts == {2^k : k \in 0..MaxExp} \cup {2^k + 1 : k \in 0..MaxExp} \cup {5000}

PlannerInit ==
  /\ prevPlan = NoPlan
  /\ plan = NoPlan
  /\ tree = "none"

\* a call of calculateTreeParams(nftCount)
PlanTree(nftCount) ==
  /\ prevPlan' = plan
  /\ plan' = [nftCount |-> nftCount, error |-> "none",
              params |-> calculateTreeParams(nftCount)]
  /\ tree' = "none"
  /\ UNCHANGED <<mockVars, workerVars, rpcVars, statusVars, minterVars, postVars>>

\* createTree(payer, params) on the planned parameters: it throws on a pair
\* that is not supported, and otherwise creates the tree or fails later
\* (balance, simulation, RPC)
createTree(later) ==
  /\ plan # NoPlan
  /\ tree = "none"
  /\ tree' = IF ~isValidDepthSizePair(plan.params.maxDepth, plan.params.maxBufferSize)
               THEN "Invalid depth/buffer size combination"
               ELSE later
  /\ UNCHANGED <<prevPlan, plan, mockVars, workerVars, rpcVars, statusVars, minterVars, postVars>>

PlannerNext ==
  \/ \E nftCount \in NftCounts : PlanTree(nftCount)
  \/ \E later \in {"created", "Merkle Tree creation failed"} : createTree(later)

\* ------------------------------------------------------------------------
\* RPCManager (lib/solana/rpc-manager.ts) and RPC_CONFIG
\* ------------------------------------------------------------------------
maxRetries == 3
maxConcurrentRequests == 10
RateLimitStep == 1000     \* this.rateLimitDelay + 1000
RateLimitCap == 10000     \* Math.min(..., 10000)
RateLimitDecay == 100     \* this.rateLimitDelay - 100

MaxQueue == 1       \* anonymous calls that wait in one requestQueue
MaxPoolCalls == 4   \* calls a component has outstanding when all components run

\* the components that construct an RPCManager of their own:
\* MerkleTreeManager, CollectionManager, CNFTMinter
Managers == {"tree", "collection", "minter"}

\* Strings as sequences of characters, for toLowerCase and includes
UpperCase == <<"A", "B", "C", "D", "E", "F", "G", "H", "I", "J", "K", "L", "M", "N", "O", "P", "Q", "R", "S", "T", "U", "V", "W", "X", "Y", "Z">>
LowerCase == <<"a", "b", "c", "d", "e", "f", "g", "h", "i", "j", "k", "l", "m", "n", "o", "p", "q", "r", "s", "t", "u", "v", "w", "x", "y", "z">>

toLowerCase(s) ==
  [i \in 1..Len(s) |->
     IF \E k \in 1..Len(UpperCase) : UpperCase[k] = s[i]
       THEN LowerCase[CHOOSE k \in 1..Len(UpperCase) : UpperCase[k] = s[i]]
       ELSE s[i]]

includes(s, p) ==
  \E i \in 0..(Len(s) - Len(p)) : SubSeq(s, i + 1, i + Len(p)) = p

\* the kinds of failure of one attempt, and error.message of each: the
\* timeout of timeoutPromise, a failed fetch, a reset socket, HTTP 429,
\* HTTP 503 and a request the endpoint rejects as malformed
ErrorKinds == {"timeout", "network", "connreset", "http429", "http503", "invalid"}

message(kind) ==
  CASE kind = "timeout" -> <<"R", "e", "q", "u", "e", "s", "t", " ", "t", "i", "m", "e", "o", "u", "t">>
    [] kind = "network" -> <<"N", "e", "t", "w", "o", "r", "k", " ", "r", "e", "q", "u", "e", "s", "t", " ", "f", "a", "i", "l", "e", "d">>
    [] kind = "connreset" -> <<"r", "e", "a", "d", " ", "E", "C", "O", "N", "N", "R", "E", "S", "E", "T">>
    [] kind = "http429" -> <<"4", "2", "9", " ", "T", "o", "o", " ", "M", "a", "n", "y", " ", "R", "e", "q", "u", "e", "s", "t", "s">>
    [] kind = "http503" -> <<"5", "0", "3", " ", "S", "e", "r", "v", "i", "c", "e", " ", "U", "n", "a", "v", "a", "i", "l", "a", "b", "l", "e">>
    [] kind = "invalid" -> <<"I", "n", "v", "a", "l", "i", "d", " ", "p", "a", "r", "a", "m", "s">>

retryableErrors ==
  {<<"N", "e", "t", "w", "o", "r", "k", " ", "r", "e", "q", "u", "e", "s", "t", " ", "f", "a", "i", "l", "e", "d">>,
   <<"t", "i", "m", "e", "o", "u", "t">>,
   <<"E", "C", "O", "N", "N", "R", "E", "S", "E", "T">>,
   <<"E", "N", "O", "T", "F", "O", "U", "N", "D">>,
   <<"r", "a", "t", "e", " ", "l", "i", "m", "i", "t">>,
   <<"4", "2", "9">>,
   <<"5", "0", "3">>,
   <<"5", "0", "2">>,
   <<"5", "0", "4">>}

isRetryableError(kind) ==
  \E msg \in retryableErrors : includes(toLowerCase(message(kind)), msg)

RateLimitText == <<"r", "a", "t", "e", " ", "l", "i", "m", "i", "t">>
Http429Text == <<"4", "2", "9">>

\* mutant of the classification of rate-limit errors: the status code dropped
isRateLimitErrorTextOnly(kind) ==
  includes(toLowerCase(message(kind)), RateLimitText)

isRateLimitError(kind) ==
  \/ includes(toLowerCase(message(kind)), RateLimitText)
  \/ includes(toLowerCase(message(kind)), Http429Text)

\* the two classifications over the kinds of failure
RetryableKinds == {kind \in ErrorKinds : isRetryableError(kind)}
RateLimitKinds == {kind \in ErrorKinds : isRateLimitError(kind)}

\* what the endpoint can answer to one attempt ("ok": the operation resolved)
Outcomes(mode) ==
  CASE mode = "any" -> ErrorKinds \cup {"ok"}
    [] mode = "rateLimited" -> {"http429"}
    [] mode = "healthy" -> {"ok"}

\* the catch block of the queued closure of throttledRequest; a resolved
\* operation does not enter it
DelayAfter(delay, outcome) ==
  IF outcome = "ok" THEN delay
  ELSE IF outcome \in RateLimitKinds THEN Min(delay + RateLimitStep, RateLimitCap)
  ELSE Max(delay - RateLimitDecay, 0)

\* calls in a requestQueue: Me is the followed executeWithRetry invocation,
\* the others are anonymous callers
Me == 0
OtherIds == 1..MaxQueue
Nobody == -1

Range(q) == {q[i] : i \in 1..Len(q)}

\* mutants of processQueue: the limit test not strict, and the newest
\* waiting call taken instead of the oldest
processQueueInclusive(queue, active) ==
  IF active <= maxConcurrentRequests /\ Len(queue) > 0
    THEN [queue |-> Tail(queue), active |-> active + 1, started |-> Head(queue)]
    ELSE [queue |-> queue, active |-> active, started |-> Nobody]

processQueueNewest(queue, active) ==
  IF active < maxConcurrentRequests /\ Len(queue) > 0
    THEN [queue |-> SubSeq(queue, 1, Len(queue) - 1), active |-> active + 1,
          started |-> queue[Len(queue)]]
    ELSE [queue |-> queue, active |-> active, started |-> Nobody]

\* mutant of processQueue: the last slot is never given out
processQueueOneShort(queue, active) ==
  IF active + 1 < maxConcurrentRequests /\ Len(queue) > 0
    THEN [queue |-> Tail(queue), active |-> active + 1, started |-> Head(queue)]
    ELSE [queue |-> queue, active |-> active, started |-> Nobody]

\* processQueue, with the activeRequests++ that the started closure runs
\* before its first await
processQueue(queue, active) ==
  IF active < maxConcurrentRequests /\ Len(queue) > 0
    THEN [queue |-> Tail(queue), active |-> active + 1, started |-> Head(queue)]
    ELSE [queue |-> queue, active |-> active, started |-> Nobody]

\* the followed invocation: budget is the retries argument of the outermost
\* call, retries the argument of the current one, attempts the number of
\* closures of it that have started, lastError the error of the last attempt
\* that failed, result what the outermost call returned or threw
IdleCall == [phase |-> "idle", budget |-> 0, retries |-> 0, attempts |-> 0,
             lastError |-> "none", result |-> "none"]

Started(c, started) ==
  IF started = Me THEN [c EXCEPT !.phase = "active", !.attempts = @ + 1] ELSE c

MineActive(m) == IF m = "tree" /\ call.phase = "active" THEN 1 ELSE 0

Pending(m) == Len(requestQueue[m]) + activeRequests[m]

RpcInit ==
  /\ requestQueue = [m \in Managers |-> <<>>]
  /\ activeRequests = [m \in Managers |-> 0]
  /\ rateLimitDelay = [m \in Managers |-> 0]
  /\ call = IdleCall
  /\ endpoint = "any"

\* throttledRequest of an anonymous caller: push, then processQueue.  cap
\* bounds the calls the manager's callers have outstanding.
throttledRequest(m, c, cap) ==
  /\ c \notin Range(requestQueue[m])
  /\ Cardinality(Range(requestQueue[m]) \ {Me}) < MaxQueue
  /\ Pending(m) - MineActive(m) < cap
  /\ LET r == processQueue(Append(requestQueue[m], c), activeRequests[m]) IN
       /\ requestQueue' = [requestQueue EXCEPT ![m] = r.queue]
       /\ activeRequests' = [activeRequests EXCEPT ![m] = r.active]
       /\ call' = Started(call, r.started)
  /\ UNCHANGED <<rateLimitDelay, endpoint, mockVars, workerVars, plannerVars, statusVars, minterVars, postVars>>

\* an active closure of an anonymous caller settles: resolve, or catch with
\* the update of rateLimitDelay; finally activeRequests-- and processQueue.
\* (The sleep of rateLimitDelay before the operation changes no state.)
Settle(m, outcome) ==
  /\ activeRequests[m] - MineActive(m) > 0
  /\ outcome \in Outcomes(endpoint)
  /\ rateLimitDelay' = [rateLimitDelay EXCEPT ![m] = DelayAfter(@, outcome)]
  /\ LET r == processQueue(requestQueue[m], activeRequests[m] - 1) IN
       /\ requestQueue' = [requestQueue EXCEPT ![m] = r.queue]
       /\ activeRequests' = [activeRequests EXCEPT ![m] = r.active]
       /\ call' = Started(call, r.started)
  /\ UNCHANGED <<endpoint, mockVars, workerVars, plannerVars, statusVars, minterVars, postVars>>

\* the endpoint starts to answer every call the same way
EndpointTurns(mode) ==
  /\ endpoint = "any"
  /\ endpoint' = mode
  /\ UNCHANGED <<requestQueue, activeRequests, rateLimitDelay, call,
                 mockVars, workerVars, plannerVars, statusVars, minterVars, postVars>>

\* mutant of the retry test of executeWithRetry: retries >= 0
ShouldRetryInclusive(retries, kind) == retries >= 0 /\ kind \in RetryableKinds

\* if (retries > 0 && this.isRetryableError(error))
ShouldRetry(retries, kind) == retries > 0 /\ kind \in RetryableKinds

\* executeWithRetry(operation, retries) called from outside, up to the first
\* await: throttledRequest pushes the closure and runs processQueue
executeWithRetry(retries) ==
  /\ call.phase \in {"idle", "returned", "thrown"}
  /\ LET r == processQueue(Append(requestQueue["tree"], Me), activeRequests["tree"]) IN
       /\ requestQueue' = [requestQueue EXCEPT !["tree"] = r.queue]
       /\ activeRequests' = [activeRequests EXCEPT !["tree"] = r.active]
       /\ call' = Started([phase |-> "queued", budget |-> retries,
                           retries |-> retries, attempts |-> 0,
                           lastError |-> "none", result |-> "none"], r.started)
  /\ UNCHANGED <<rateLimitDelay, endpoint, mockVars, workerVars, plannerVars, statusVars, minterVars, postVars>>

\* the attempt of the followed invocation settles, and executeWithRetry
\* returns, goes to sleep before the next attempt, or throws
SettleMine(outcome) ==
  /\ call.phase = "active"
  /\ outcome \in Outcomes(endpoint)
  /\ rateLimitDelay' = [rateLimitDelay EXCEPT !["tree"] = DelayAfter(@, outcome)]
  /\ LET r == processQueue(requestQueue["tree"], activeRequests["tree"] - 1) IN
       /\ requestQueue' = [requestQueue EXCEPT !["tree"] = r.queue]
       /\ activeRequests' = [activeRequests EXCEPT !["tree"] = r.active]
  /\ call' = IF outcome = "ok"
               THEN [call EXCEPT !.phase = "returned", !.result = "ok"]
             ELSE IF ShouldRetry(call.retries, outcome)
               THEN [call EXCEPT !.phase = "backoff", !.lastError = outcome]
             ELSE [call EXCEPT !.phase = "thrown", !.lastError = outcome,
                               !.result = outcome]
  /\ UNCHANGED <<endpoint, mockVars, workerVars, plannerVars, statusVars, minterVars, postVars>>

\* after sleep(delay): return this.executeWithRetry(operation, retries - 1)
RetryAfterSleep ==
  /\ call.phase = "backoff"
  /\ LET r == processQueue(Append(requestQueue["tree"], Me), activeRequests["tree"]) IN
       /\ requestQueue' = [requestQueue EXCEPT !["tree"] = r.queue]
       /\ activeRequests' = [activeRequests EXCEPT !["tree"] = r.active]
       /\ call' = Started([call EXCEPT !.phase = "queued", !.retries = @ - 1],
                          r.started)
  /\ UNCHANGED <<rateLimitDelay, endpoint, mockVars, workerVars, plannerVars, statusVars, minterVars, postVars>>

\* one manager under anonymous traffic
RpcNext ==
  \/ \E c \in OtherIds :
       throttledRequest("tree", c, maxConcurrentRequests + MaxQueue)
  \/ \E outcome \in ErrorKinds \cup {"ok"} : Settle("tree", outcome)
  \/ \E mode \in {"rateLimited", "healthy"} : EndpointTurns(mode)

\* one invocation of executeWithRetry among anonymous traffic
RetryNext ==
  \/ \E retries \in 0..maxRetries : executeWithRetry(retries)
  \/ \E outcome \in ErrorKinds \cup {"ok"} : SettleMine(outcome)
  \/ RetryAfterSleep
  \/ \E c \in OtherIds :
       throttledRequest("tree", c, maxConcurrentRequests + MaxQueue)
  \/ \E outcome \in ErrorKinds \cup {"ok"} : Settle("tree", outcome)

\* every component's manager against an endpoint that rate-limits
PoolNext ==
  \/ \E m \in Managers, c \in OtherIds : throttledRequest(m, c, MaxPoolCalls)
  \/ \E m \in Managers, outcome \in ErrorKinds \cup {"ok"} : Settle(m, outcome)

\* ------------------------------------------------------------------------
\* Specifications
\* ------------------------------------------------------------------------
\* the mock follows the job that createMintJob will push
MockIdle == MockInit /\ jobId = NewId

Init == MockInit /\ WorkerInit /\ PlannerInit /\ RpcInit /\ StatusInit /\ MinterInit
          /\ PostInit
Next == MockCancelNext \/ WorkerNext \/ PlannerNext \/ RpcNext \/ RetryNext \/ PoolNext
          \/ StatusNext \/ MinterNext \/ PostNext
Spec == Init /\ [][Next]_vars

\* each part alone, the other parts idle
InitIdle == MockIdle /\ WorkerInit /\ PlannerInit /\ RpcInit /\ StatusInit /\ MinterInit
          /\ PostInit
SpecMock == Init /\ [][MockNext]_vars
SpecMockCancel == Init /\ [][MockCancelNext]_vars
SpecWorker == InitIdle /\ [][WorkerNext]_vars
SpecPlanner == InitIdle /\ [][PlannerNext]_vars
SpecMinter == InitIdle /\ [][MinterNext]_vars
SpecPost == InitIdle /\ [][PostNext]_vars
\* the worker with status queries running beside it
\* (the job has two records)
StatusWorkerNext ==
  \/ \E bs \in 1..2, ok \in BOOLEAN : Enqueue(2, bs, ok)
  \/ WorkerSteps
  \/ StatusNext
SpecStatus == InitIdle /\ [][StatusWorkerNext]_vars
SpecRpc == InitIdle /\ [][RpcNext]_vars
SpecRetry == InitIdle /\ [][RetryNext]_vars

\* all managers, the endpoint rate-limiting from the start
InitPool ==
  /\ MockIdle /\ WorkerInit /\ PlannerInit /\ StatusInit /\ MinterInit /\ PostInit
  /\ requestQueue = [m \in Managers |-> <<>>]
  /\ activeRequests = [m \in Managers |-> 0]
  /\ rateLimitDelay = [m \in Managers |-> 0]
  /\ call = IdleCall
  /\ endpoint = "rateLimited"
SpecPool == InitPool /\ [][PoolNext]_vars

\* the manager under traffic that keeps arriving and settling
\* the followed invocation where every started attempt settles, every sleep
\* ends, and the calls ahead of it settle
SpecRetryFair ==
  /\ InitIdle
  /\ [][RetryNext]_vars
  /\ WF_vars(\E outcome \in ErrorKinds \cup {"ok"} : SettleMine(outcome))
  /\ WF_vars(RetryAfterSleep)
  /\ WF_vars(\E outcome \in ErrorKinds \cup {"ok"} : Settle("tree", outcome))

SpecRpcFair ==
  /\ InitIdle
  /\ [][RpcNext]_vars
  /\ WF_vars(\E c \in OtherIds :
               throttledRequest("tree", c, maxConcurrentRequests + MaxQueue))
  /\ WF_vars(\E outcome \in ErrorKinds \cup {"ok"} : Settle("tree", outcome))

\* ------------------------------------------------------------------------
\* Properties
\* ------------------------------------------------------------------------
Pow2(d) == 2^d
SetMin(S) == CHOOSE x \in S : \A y \in S : x <= y
SetMax(S) == CHOOSE x \in S : \A y \in S : x >= y
\* the depths of S whose capacity 2^d covers n
Covering(S, n) == {d \in S : Pow2(d) >= n}
\* the depths of the table of supported (depth, bufferSize) pairs
SupportedDepths == {pair[1] : pair \in validPairs}
\* the depths of the three configured tiers
TierDepths == {depths(c) : c \in Configs}

\* C1: conservation: in every reachable state of a job of the mock API,
\* mintedCount + failedCount <= totalNfts.
C1_Conservation == job.mintedCount + job.failedCount <= job.totalNfts

\* C2: mintedCount + failedCount = totalNfts if and only if the job's status
\* is terminal (COMPLETED, FAILED or CANCELLED).
C2_AllCountedIffTerminal ==
  job # NoJob =>
    ((job.mintedCount + job.failedCount = job.totalNfts) <=> (job.status \in Terminal))

\* C3: no double counting: every record is counted in the minted counter at
\* most once, also across retries of the queue job, exactly once when the job
\* has completed, and the counter never exceeds the number of records.
C3_NoDoubleCounting ==
  /\ \A k \in DOMAIN applied : applied[k] <= 1
  /\ collection.mintedCount <= dbJob.totalNfts
  /\ (wpc = "done" /\ dbJob.status = "COMPLETED") =>
       \A k \in DOMAIN applied : applied[k] = 1

\* C4: an item failure never aborts the job: the job is not moved to FAILED
\* because the remote call of an item failed, and a job whose only problem is
\* failed items ends COMPLETED.
C4_ItemFailureNeverAborts ==
  /\ error = "mint failed" => dbJob.status # "FAILED"
  /\ (wpc = "done" /\ inputOk) => dbJob.status = "COMPLETED"

\* C5: terminal states are absorbing: no operation changes the status of a
\* job that is COMPLETED, FAILED or CANCELLED.
C5_TerminalAbsorbing ==
  [][job.status \in Terminal => job'.status = job.status]_vars

\* C6: pause takes a PROCESSING job to a status distinct from PENDING.
C6_PauseIsNotPending ==
  [][(job.status = "PROCESSING" /\ lastOp' = "pause") => job'.status # "PENDING"]_vars

C8_CapacityOrInvalidCapacity ==
  plan # NoPlan =>
    \/ plan.error = "InvalidCapacity"
    \/ Pow2(plan.params.maxDepth) >= plan.nftCount

\* C9: every planned (maxDepth, maxBufferSize) pair is in the table of
\* supported pairs, so createTree never rejects a planned pair.
C9_PlannedPairSupported ==
  /\ plan # NoPlan =>
       isValidDepthSizePair(plan.params.maxDepth, plan.params.maxBufferSize)
  /\ tree # "Invalid depth/buffer size combination"

\* C10: capacity monotonicity: of two planner calls, the one with the smaller
\* or equal target count gets the smaller or equal depth.
C10_DepthMonotone ==
  (prevPlan # NoPlan /\ plan # NoPlan /\ prevPlan.nftCount <= plan.nftCount) =>
    prevPlan.params.maxDepth <= plan.params.maxDepth

C10_Witness ==
  /\ prevPlan # NoPlan /\ plan # NoPlan
  /\ prevPlan.nftCount < plan.nftCount
  /\ prevPlan.params.maxDepth < plan.params.maxDepth

\* C11: in every reachable state of one RPCManager,
\* 0 <= activeRequests <= maxConcurrentRequests.
C11_ActiveWithinLimit ==
  \A m \in Managers :
    activeRequests[m] >= 0 /\ activeRequests[m] <= maxConcurrentRequests

\* the pool is full and calls wait behind it
C11_Witness ==
  activeRequests["tree"] = maxConcurrentRequests /\ Len(requestQueue["tree"]) = MaxQueue

\* C12: all components share one pool: the in-flight calls summed over the
\* components never exceed maxConcurrentRequests, and a rate-limit signal seen
\* by one component raises the delay applied to all of them.
C12_OnePoolForAll ==
  /\ activeRequests["tree"] + activeRequests["collection"] + activeRequests["minter"]
       <= maxConcurrentRequests
  /\ \A m1 \in Managers, m2 \in Managers : rateLimitDelay[m1] = rateLimitDelay[m2]

\* C13: while the endpoint answers every call with a rate-limit signal, the
\* delay is strictly larger after each settled call until it is at the cap,
\* stays at the cap from then on, and never decreases.
C13_DelayClimbsToCap ==
  [][endpoint = "rateLimited" =>
       /\ rateLimitDelay'["tree"] >= rateLimitDelay["tree"]
       /\ rateLimitDelay'["tree"] <= RateLimitCap
       /\ Pending("tree")' = Pending("tree") - 1 =>
            IF rateLimitDelay["tree"] < RateLimitCap
              THEN rateLimitDelay'["tree"] > rateLimitDelay["tree"]
              ELSE rateLimitDelay'["tree"] = RateLimitCap]_vars

\* the delay has climbed to the cap under the rate-limiting endpoint, and
\* calls are still in flight
C13_Witness ==
  /\ endpoint = "rateLimited"
  /\ rateLimitDelay["tree"] = RateLimitCap
  /\ activeRequests["tree"] > 0

\* C14: once the endpoint answers every call successfully, the delay reaches
\* zero, whatever value in [0, cap] it had.
C14_DelayDecaysToZero ==
  (endpoint = "healthy") ~> (rateLimitDelay["tree"] = 0)

\* the kinds of failure the retry policy is to retry: request timeout,
\* connection reset, network failure, HTTP 429, HTTP 5xx
TransientKinds == {"timeout", "connreset", "network", "http429", "http503"}

\* C15: while retries remain, a failure of a transient kind is retried, and a
\* failure of any other kind is thrown without another attempt.
C15_TransientKindsRetried ==
  /\ (call.phase = "thrown" /\ call.retries > 0) => call.lastError \notin TransientKinds
  /\ call.phase = "backoff" => call.lastError \in TransientKinds

\* C16: executeWithRetry with retry budget r returns or throws: it starts the
\* operation at most r + 1 times, what it throws is the error of its last
\* attempt, and an invocation that is under way ends.
C16_BoundedAttempts ==
  /\ [](/\ call.attempts <= call.budget + 1
        /\ call.attempts + call.retries <= call.budget + 1
        /\ call.phase = "thrown" => call.result = call.lastError
        /\ call.phase = "returned" => call.result = "ok")
  /\ (call.phase \in {"queued", "active", "backoff"})
       ~> (call.phase \in {"returned", "thrown"})

\* the whole budget was used and the invocation threw
C16_Witness ==
  /\ call.phase = "thrown"
  /\ call.budget = maxRetries
  /\ call.attempts = maxRetries + 1

\* C17: calls leave the requestQueue in the order in which they entered it:
\* the call that starts is the oldest one waiting, and the order of the
\* waiting calls never changes.
C17_FifoAdmission ==
  [][\A m \in Managers :
       /\ \A c \in Range(requestQueue[m]) \ Range(requestQueue'[m]) :
            c = Head(requestQueue[m])
       /\ \/ requestQueue'[m] = requestQueue[m]
          \/ requestQueue[m] # <<>> /\ requestQueue'[m] = Tail(requestQueue[m])
          \/ \E c \in OtherIds \cup {Me} :
               requestQueue'[m] = Append(requestQueue[m], c)]_vars

\* two calls wait behind a full pool
C17_Witness ==
  Len(requestQueue["tree"]) = 2 /\ activeRequests["tree"] = maxConcurrentRequests

\* C18: completedAt of the job row is set in every state in which the status
\* is COMPLETED, FAILED or CANCELLED, and in no state in which it is not.
C18_CompletedAtIffTerminal ==
  dbJob # NoRow => (dbJob.status \in Terminal <=> dbJob.completedAt)

\* C19: the job row has an error message only while its status is FAILED,
\* also after the queue retries the job.
C19_ErrorMessageOnlyWhenFailed ==
  dbJob.errorMessage # "none" => dbJob.status = "FAILED"

\* C20: under start, pause, resume and progress ticks the actualCost of a job
\* never decreases and never exceeds its estimatedCost.
C20_CostMonotoneAndCapped ==
  /\ [](job.actualCost <= job.estimatedCost * job.totalNfts)
  /\ [][job'.actualCost >= job.actualCost]_vars

\* a started job has been ticked to completion at its full estimated cost
C20_Witness ==
  /\ lastOp = "tick"
  /\ job.status = "COMPLETED"
  /\ job.actualCost > 0
  /\ job.actualCost = job.estimatedCost * job.totalNfts

\* C21: while a job of the mock API is paused (pause has set its status),
\* no step changes its mintedCount, failedCount, progress or actualCost.
C21_PausedChangesNothing ==
  [][job.status = "PENDING" =>
       /\ job'.mintedCount = job.mintedCount
       /\ job'.failedCount = job.failedCount
       /\ job'.progress = job.progress
       /\ job'.actualCost = job.actualCost]_vars

\* a job that was started and ticked was paused part-way, and the timers
\* that found it paused have stopped
C21_Witness ==
  /\ jobId = NewId
  /\ lastOp = "pause"
  /\ job.status = "PENDING"
  /\ job.mintedCount > 0
  /\ job.mintedCount < job.totalNfts
  /\ intervals = 0

\* C22: a restart of processing continues after the records that already
\* have an outcome: a record that was minted is never sent to the endpoint
\* again, and the minted counter is never lowered.
C22_MintedNeverResent ==
  [][wpc # "unqueued" =>
       /\ \A k \in DOMAIN minted : minted[k] >= 1 => sent'[k] = sent[k]
       /\ collection'.mintedCount >= collection.mintedCount]_vars

\* C23: cancel moves a job to CANCELLED at once and counts every record
\* without an outcome under failedCount, so that mintedCount + failedCount =
\* totalNfts afterwards; while the job is CANCELLED no step (a timer still
\* in flight) changes its counters.
C23_CancelSettlesCounters ==
  /\ [](lastOp = "cancel" =>
          /\ job.status = "CANCELLED"
          /\ job.mintedCount + job.failedCount = job.totalNfts)
  /\ [][job.status = "CANCELLED" =>
          /\ job'.mintedCount = job.mintedCount
          /\ job'.failedCount = job.failedCount]_vars

\* C24: a response of the status endpoint never pairs the step 'completed'
\* with the status PROCESSING, nor the status FAILED with a progress that
\* is not reset to 0.
C24_ConsistentSnapshot ==
  response.code = 200 =>
    /\ ~(response.progress.currentStep = "completed" /\ response.status = "PROCESSING")
    /\ response.status = "FAILED" => response.progress.percentage = 0

\* C25: the batches of a job are dispatched one after the other in input
\* order: when the items of a batch are sent, no call of an earlier batch is
\* waited for, and every item of the batch before it has been minted and
\* counted; the calls waited for are always items of the batch the loop is at.
C25_BatchesSequential ==
  /\ [](wpc = "await" => awaited \subseteq BatchLeaves)
  /\ [][(wpc = "batch" /\ wpc' = "await") =>
          /\ awaited = {}
          /\ batchIdx > 0 =>
               \A x \in 1..Len(Batches[batchIdx]) :
                 LET k == Batches[batchIdx][x] + 1 IN
                   minted[k] >= 1 /\ applied[k] >= 1]_vars

\* the second batch of a job has been sent
C25_Witness ==
  wpc = "await" /\ batchIdx = 1 /\ Len(Batches[1]) = 2 /\ awaited # {}

\* C26: leafIndex is given by position and never reused: the i-th record
\* (0-based) has leafIndex i, and no two mints into the same tree are given
\* the same leafIndex.
C26_LeafIndexUnique ==
  /\ \A i \in 1..Len(nftRows) : nftRows[i] = i - 1
  /\ \A i \in 1..Len(mintResults), j \in 1..Len(mintResults) :
       i # j => mintResults[i] # mintResults[j]

RECURSIVE Concat(_)
Concat(batches) ==
  IF batches = <<>> THEN <<>> ELSE Head(batches) \o Concat(Tail(batches))

\* C27: createBatches(items, batchSize) with batchSize >= 1 cuts the list
\* into consecutive batches: their concatenation is the list, every batch is
\* non-empty, every batch but the last has batchSize items, and there are
\* ceil(len(items) / batchSize) batches.
C27_BatchesPartition ==
  wpc # "unqueued" =>
    /\ Concat(Batches) = Records
    /\ \A i \in 1..Len(Batches) : Len(Batches[i]) >= 1
    /\ \A i \in 1..(Len(Batches) - 1) : Len(Batches[i]) = batchSize
    /\ Len(Batches) = (Len(Records) + batchSize - 1) \div batchSize

\* the loop is at the short last batch of three records cut in twos
C27_Witness ==
  /\ wpc = "batch"
  /\ dbJob.totalNfts = 3
  /\ batchSize = 2
  /\ batchIdx = 1
  /\ Len(Batches[2]) = 1

\* C28: no request is stranded in the queue of an RPCManager: whenever its
\* requestQueue is not empty, activeRequests equals maxConcurrentRequests;
\* and a call that waits in the queue is started, given that started calls
\* settle.
C28_NoStrandedRequest ==
  /\ [](\A m \in Managers :
          requestQueue[m] # <<>> => activeRequests[m] = maxConcurrentRequests)
  /\ (call.phase = "queued") ~> (call.phase # "queued")

\* the followed call waits at the head of the queue behind a full pool
C28_Witness ==
  /\ call.phase = "queued"
  /\ requestQueue["tree"] # <<>>
  /\ Head(requestQueue["tree"]) = Me

\* C29: at most one mint job is created and enqueued for a collection: of the
\* POST /api/mint-jobs requests for it, in any interleaving of their reads
\* and writes, at most one makes a job row, enqueues a job and answers 202.
C29_OneJobPerCollection ==
  /\ Cardinality(jobRows) <= 1
  /\ Cardinality(queueJobs) <= 1
  /\ Cardinality({r \in Requests : ppc[r] = "202"}) <= 1

\* C30: a job has at most one live progress timer: however start, pause,
\* resume and the ticks are ordered, no second interval runs for the job.
C30_SingleProgressTimer == intervals <= 1
====
